---- MODULE Spec2Model ----
(***************************************************************************)
(* A model of the chat route (app/routes/chat.jsx) and of the MCP client   *)
(* (app/mcp-client.js).  A session is one run of handleChatSession with    *)
(* its own MCPClient.  JavaScript runs one callback at a time, so every    *)
(* action is the code that runs between two awaits.                        *)
(***************************************************************************)
EXTENDS Integers, Sequences, FiniteSets, TLC

\* ------------------------------------------------------------------ bounds

\* streamConversation calls explored per session (the loop itself has no cap)
MaxLLMCalls == 2
\* last value of Date.now() explored
MaxClock == 2
\* failures of collaborators and disconnections explored in one run
MaxFaults == 1

Sessions == {"s1", "s2"}

\* conversation ids a client may send with its request (an existing conversation)
ClientIds == {0}
\* a server-generated id is Date.now().toString(): the digits stand for the string
ConvIds == ClientIds \cup (1..MaxClock)

\* ------------------------------------------------------- values and strings

Undefined == [t |-> "undefined"]
Str(text) == [t |-> "str", s |-> text]

\* the texts a user may send: one that is no JSON, one that is JSON (a number)
PlainText == [json |-> FALSE, raw |-> "hello"]
NumberText == [json |-> TRUE, v |-> [t |-> "num", n |-> 42]]
UserMessages == {PlainText, NumberText}

\* JSON.stringify(value): a text that parses back to value
JsonStringify(value) == [json |-> TRUE, v |-> value]

\* content = JSON.parse(text) in a try, the text itself in the catch
ParseContent(text) == IF text.json THEN text.v ELSE Str(text)

\* dbMessages.map(...) of handleChatSession
FormatMessages(rows) ==
    [i \in 1..Len(rows) |->
        [role |-> rows[i].role, content |-> ParseContent(rows[i].content)]]

\* ------------------------------------------------------------ tool catalogs

\* what the two backends advertise on tools/list (upstream field naming differs)
StorefrontAdvertised ==
    << [name |-> "search_products", inputSchema |-> "schema"],
       [name |-> "get_cart", input_schema |-> "schema"] >>
CustomerAdvertised ==
    << [name |-> "get_orders", inputSchema |-> "schema"],
       [name |-> "get_cart", inputSchema |-> "schema"] >>
UnknownTool == "no_such_tool"

\* MCPClient._formatToolsData
FormatToolsData(toolsData) ==
    [i \in 1..Len(toolsData) |->
        [name |-> toolsData[i].name,
         input_schema |->
            IF "inputSchema" \in DOMAIN toolsData[i]
            THEN toolsData[i].inputSchema
            ELSE toolsData[i].input_schema]]

Names(tools) == {tools[i].name : i \in 1..Len(tools)}

\* ------------------------------------------------------------ backend client

NoStatus == 0

\* what fetch may produce for one POST
NetworkFailure == [net |-> "fail", status |-> NoStatus, body |-> "none"]
HttpResponses ==
    { [net |-> "ok", status |-> 200, body |-> "products"],
      [net |-> "ok", status |-> 200, body |-> "result"],
      [net |-> "ok", status |-> 200, body |-> "rpc_error"],
      [net |-> "ok", status |-> 200, body |-> "html"],
      [net |-> "ok", status |-> 401, body |-> "html"],
      [net |-> "ok", status |-> 500, body |-> "html"] }
Responses == HttpResponses \cup {NetworkFailure}

\* res.ok
ResOk(status) == status >= 200 /\ status <= 299

\* the request gone wrong: the HTTP status is not put on the error
MakeJsonRpcRequestNoStatus(resp) ==
    IF resp.net = "fail" \/ ~ResOk(resp.status) \/ resp.body = "html"
    THEN [threw |-> TRUE, error |-> "syntax", status |-> NoStatus, value |-> "none"]
    ELSE [threw |-> FALSE, error |-> "none", status |-> NoStatus, value |-> resp.body]

\* MCPClient._makeJsonRpcRequest: the decoded envelope, or the error thrown
MakeJsonRpcRequest(resp) ==
    IF resp.net = "fail"
    THEN [threw |-> TRUE, error |-> "fetch", status |-> NoStatus, value |-> "none"]
    ELSE IF ~ResOk(resp.status)
    THEN [threw |-> TRUE, error |-> "http", status |-> resp.status, value |-> "none"]
    ELSE IF resp.body = "html"
    THEN [threw |-> TRUE, error |-> "syntax", status |-> NoStatus, value |-> "none"]
    ELSE [threw |-> FALSE, error |-> "none", status |-> NoStatus, value |-> resp.body]


\* ------------------------------------------------------------------- state

VARIABLES
    cfg,            \* the run: which requests arrive, ENABLE_CUSTOMER_MCP, faults explored
    faults,         \* failures and disconnections so far in this run
    clock,          \* Date.now()
    dbMessages,     \* db.server: the persisted rows of each conversation
    dbToken,        \* db.server: the persisted customer token of each conversation
    pc,             \* where each request's handler stands
    conv,           \* conversationId of handleChatRequest
    userMessage,    \* body.message
    transportOpen,  \* whether the end user's connection is still open
    endpoint,       \* customerMcpEndpoint of handleChatSession (resolved or null)
    discovery,      \* how the tools/list discovery of each backend went
    client,         \* the session's MCPClient instance
    history,        \* conversationHistory
    products,       \* productsToDisplay
    finalMessage,   \* finalMessage.stop_reason of the loop
    llmCalls,       \* streamConversation calls started
    offered,        \* the tools argument of the latest streamConversation call
    current,        \* the message the provider is delivering and its tool_use blocks left
    call,           \* the latest callTool: name, owner, failure met, outcome
    events,         \* the arguments of stream.sendMessage, in call order
    requests,       \* the POSTs of _makeJsonRpcRequest, in call order
    pendingSaves    \* saveMessage promises of onMessage not yet settled

vars == << cfg, faults, clock, dbMessages, dbToken, pc, conv, userMessage, transportOpen,
           endpoint, discovery, client, history, products, finalMessage, llmCalls, offered,
           current, call, events, requests, pendingSaves >>

dbVars == << dbMessages, dbToken >>
reqVars == << conv, userMessage >>
loopVars == << history, products, finalMessage, llmCalls, offered, current >>

NoConv == -1
NoCall ==
    [name |-> "none", owner |-> "none", error |-> "none", status |-> NoStatus,
     authUrl |-> "none", outcome |-> "none", data |-> Undefined]
NoMessage == [stop |-> "undefined", tools |-> << >>]

\* constructor of MCPClient
NewMCPClient ==
    [customerAccessToken |-> "", tools |-> << >>, customerTools |-> << >>,
     storefrontTools |-> << >>]

\* the earlier exchange of the conversation a client comes back to
PriorRows ==
    << [role |-> "user", content |-> PlainText, req |-> "earlier"],
       [role |-> "assistant",
        content |-> JsonStringify([t |-> "blocks", text |-> TRUE, tools |-> << >>]),
        req |-> "earlier"] >>

InitCommon ==
    /\ faults = 0
    /\ clock = 1
    /\ dbMessages = [c \in ConvIds |-> IF c \in ClientIds THEN PriorRows ELSE << >>]
    /\ dbToken = [c \in ConvIds |-> ""]
    /\ pc = [s \in Sessions |-> "idle"]
    /\ conv = [s \in Sessions |-> NoConv]
    /\ userMessage = [s \in Sessions |-> PlainText]
    /\ transportOpen = [s \in Sessions |-> TRUE]
    /\ endpoint = [s \in Sessions |-> "null"]
    /\ discovery = [s \in Sessions |-> [storefront |-> "none", customer |-> "none"]]
    /\ client = [s \in Sessions |-> NewMCPClient]
    /\ history = [s \in Sessions |-> << >>]
    /\ products = [s \in Sessions |-> << >>]
    /\ finalMessage = [s \in Sessions |-> "undefined"]
    /\ llmCalls = [s \in Sessions |-> 0]
    /\ offered = [s \in Sessions |-> << >>]
    /\ current = [s \in Sessions |-> NoMessage]
    /\ call = [s \in Sessions |-> NoCall]
    /\ events = [s \in Sessions |-> << >>]
    /\ requests = [s \in Sessions |-> << >>]
    /\ pendingSaves = [s \in Sessions |-> << >>]

\* one request, every failure of the collaborators explored
Init ==
    /\ InitCommon
    /\ \E e \in BOOLEAN :
        cfg = [arrive |-> {"s1"}, messages |-> UserMessages, enableCustomerMcp |-> e,
               maxFaults |-> MaxFaults, cap |-> MaxLLMCalls]


\* ------------------------------------------------- what the environment may do

\* whether this run may still meet a failure
FaultAllowed == faults < cfg.maxFaults

\* a failure is counted
Fault(failed) == faults' = IF failed THEN faults + 1 ELSE faults

\* an answer that counts as a failure of the backend: anything but a result, except
\* the customer backend's 401 to a call (the customer has not authorized yet)
FailedResponse(r, to, method) ==
    /\ ~(r.status = 200 /\ r.body \in {"products", "result"})
    /\ ~(r.status = 401 /\ to = "customer" /\ method = "tools/call")

\* answers explored for a tools/list POST
ListResponses(to) ==
    {r \in Responses : /\ r.body # "products"
                       /\ FailedResponse(r, to, "tools/list") => FaultAllowed}

\* answers explored for a tools/call POST (only the storefront returns products)
CallResponses(to) ==
    {r \in Responses : /\ r.body = "products" => to = "storefront"
                       /\ FailedResponse(r, to, "tools/call") => FaultAllowed}

\* whether a collaborator's promise (db.server, auth.server, the provider) may reject
MayReject == IF FaultAllowed THEN {FALSE, TRUE} ELSE {FALSE}

\* stream.sendMessage(e) for each e of types, in order
Publish(s, types) == events' = [events EXCEPT ![s] = @ \o types]

\* the POST of _makeJsonRpcRequest
Post(s, to, method, auth, tool) ==
    requests' = [requests EXCEPT ![s] =
        Append(@, [to |-> to, method |-> method, auth |-> auth, tool |-> tool])]

\* ------------------------------------------------------------ handleChatRequest

\* the requests are named in the order in which their handlers start
ArrivesBefore(s) == IF s = "s2" THEN {"s1"} ELSE {}

\* request.json(): a body that is no JSON, or {message?, conversation_id?} (NoConv: none)
Bodies ==
    {[bad |-> TRUE, message |-> Undefined, conversation_id |-> NoConv]} \cup
    [bad : {FALSE}, message : cfg.messages \cup {Undefined},
     conversation_id : ClientIds \cup {NoConv}]

\* body.conversation_id || Date.now().toString()
ConversationId(body, now) ==
    IF body.conversation_id # NoConv THEN body.conversation_id ELSE now

\* handleChatRequest up to the first await of handleChatSession; shopOk is whether
\* resolveShopDomain(request) returns
HandleChatRequest(s) ==
    /\ pc[s] = "idle"
    /\ s \in cfg.arrive
    /\ \A t \in ArrivesBefore(s) : pc[t] # "idle"
    /\ \E body \in Bodies, shopOk \in BOOLEAN :
        /\ (body.bad \/ ~shopOk) => FaultAllowed
        /\ IF body.bad
           THEN /\ pc' = [pc EXCEPT ![s] = "error500"]
                /\ UNCHANGED reqVars
           ELSE IF body.message = Undefined
           THEN /\ pc' = [pc EXCEPT ![s] = "rejected400"]
                /\ UNCHANGED reqVars
           ELSE /\ conv' = [conv EXCEPT ![s] = ConversationId(body, clock)]
                /\ userMessage' = [userMessage EXCEPT ![s] = body.message]
                /\ pc' = [pc EXCEPT ![s] = IF shopOk THEN "endpoint" ELSE "raised"]
    /\ UNCHANGED << cfg, faults, clock, dbVars, transportOpen, endpoint, discovery, client,
                    loopVars, call, events, requests, pendingSaves >>

\* ------------------------------------------------- handleChatSession: discovery

\* after getCustomerMcpEndpoint: new MCPClient, the id event, connectToStorefrontServer
ResolveEndpoint(s) ==
    /\ pc[s] = "endpoint"
    /\ \E ep \in {"resolved", "null"} :
        /\ (ep = "null") => FaultAllowed
        /\ Fault(ep = "null")
        /\ endpoint' = [endpoint EXCEPT ![s] = ep]
    /\ client' = [client EXCEPT ![s] = NewMCPClient]
    /\ Publish(s, << "id" >>)
    /\ Post(s, "storefront", "tools/list", FALSE, "none")
    /\ pc' = [pc EXCEPT ![s] = "sf_list"]
    /\ UNCHANGED << cfg, clock, dbVars, reqVars, transportOpen, discovery, loopVars, call,
                    pendingSaves >>

\* response?.result && response.result.tools ? response.result.tools : []
ToolsData(value, advertised) == IF value = "result" THEN advertised ELSE << >>

\* the gate gone wrong: the customer backend is always connected
CustomerAlwaysEnabled(s) == cfg.enableCustomerMcp \/ ~cfg.enableCustomerMcp

\* process.env.ENABLE_CUSTOMER_MCP === "true" && customerMcpEndpoint
CustomerEnabled(s) == cfg.enableCustomerMcp /\ endpoint[s] # "null"

\* connectToStorefrontServer after its fetch, then the gate of the customer backend
StorefrontListResponse(s) ==
    /\ pc[s] = "sf_list"
    /\ \E resp \in ListResponses("storefront") :
        /\ Fault(FailedResponse(resp, "storefront", "tools/list"))
        /\ discovery' = [discovery EXCEPT ![s].storefront =
                IF FailedResponse(resp, "storefront", "tools/list")
                THEN "failed" ELSE "listed"]
        /\ LET r == MakeJsonRpcRequest(resp)
               storefrontTools == FormatToolsData(ToolsData(r.value, StorefrontAdvertised))
           IN  IF r.threw
               THEN /\ pc' = [pc EXCEPT ![s] = "save_user"]
                    /\ UNCHANGED client
               ELSE /\ client' = [client EXCEPT
                           ![s].storefrontTools = storefrontTools,
                           ![s].tools = @ \o storefrontTools]
                    /\ pc' = [pc EXCEPT ![s] =
                           IF CustomerEnabled(s) THEN "cu_token" ELSE "save_user"]
    /\ UNCHANGED << cfg, clock, dbVars, reqVars, transportOpen, endpoint, loopVars,
                    call, events, requests, pendingSaves >>

\* the caching gone wrong: the token found is used for the request but not kept
CachedTokenNotKept(cached, accessToken) == cached

\* if (dbToken?.accessToken) this.customerAccessToken = dbToken.accessToken
CachedToken(cached, accessToken) == IF accessToken # "" THEN accessToken ELSE cached

\* connectToCustomerServer after getCustomerToken: the cached token, the headers, the POST
CustomerTokenLoaded(s) ==
    /\ pc[s] = "cu_token"
    /\ \E rejects \in MayReject :
        /\ Fault(rejects)
        /\ discovery' = [discovery EXCEPT ![s].customer = IF rejects THEN "failed" ELSE @]
        /\ IF rejects
           THEN /\ pc' = [pc EXCEPT ![s] = "save_user"]
                /\ UNCHANGED << client, requests >>
           ELSE LET token == CachedToken(client[s].customerAccessToken, dbToken[conv[s]])
                IN  /\ client' = [client EXCEPT ![s].customerAccessToken = token]
                    /\ Post(s, "customer", "tools/list", token # "", "none")
                    /\ pc' = [pc EXCEPT ![s] = "cu_list"]
    /\ UNCHANGED << cfg, clock, dbVars, reqVars, transportOpen, endpoint, loopVars,
                    call, events, pendingSaves >>

\* connectToCustomerServer after its fetch
CustomerListResponse(s) ==
    /\ pc[s] = "cu_list"
    /\ \E resp \in ListResponses("customer") :
        /\ Fault(FailedResponse(resp, "customer", "tools/list"))
        /\ discovery' = [discovery EXCEPT ![s].customer =
                IF FailedResponse(resp, "customer", "tools/list")
                THEN "failed" ELSE "listed"]
        /\ LET r == MakeJsonRpcRequest(resp)
               customerTools == FormatToolsData(ToolsData(r.value, CustomerAdvertised))
           IN  IF r.threw
               THEN UNCHANGED client
               ELSE client' = [client EXCEPT
                       ![s].customerTools = customerTools,
                       ![s].tools = @ \o customerTools]
    /\ pc' = [pc EXCEPT ![s] = "save_user"]
    /\ UNCHANGED << cfg, clock, dbVars, reqVars, transportOpen, endpoint, loopVars,
                    call, events, requests, pendingSaves >>


\* --------------------------------------------- handleChatSession: the history

\* the catch gone wrong: the failure is swallowed and the session ends quietly
Swallowed == "done"

\* catch (error) { throw error } around the session: where a failure inside it leads
Rethrown == "raised"

\* await saveMessage(conversationId, "user", userMessage), then getConversationHistory
UserMessageSaved(s) ==
    /\ pc[s] = "save_user"
    /\ \E rejects \in MayReject :
        /\ Fault(rejects)
        /\ IF rejects
           THEN /\ pc' = [pc EXCEPT ![s] = Rethrown]
                /\ UNCHANGED dbMessages
           ELSE /\ dbMessages' = [dbMessages EXCEPT ![conv[s]] =
                       Append(@, [role |-> "user", content |-> userMessage[s], req |-> s])]
                /\ pc' = [pc EXCEPT ![s] = "get_history"]
    /\ UNCHANGED << cfg, clock, dbToken, reqVars, transportOpen, endpoint, discovery, client,
                    loopVars, call, events, requests, pendingSaves >>

\* the loop's test gone wrong: it repeats only after a tool_use turn
LoopContinuesOnToolUse(stop) == stop = "tool_use"

\* the loop's test gone wrong: it never ends
LoopContinuesAlways(stop) == stop = stop

\* the loop's test gone wrong: one call only, whatever it returns
LoopContinuesFirstOnly(stop) == stop = "undefined"

\* while (finalMessage.stop_reason !== "end_turn")
LoopContinues(stop) == stop # "end_turn"

\* the end gone wrong: product_results before end_turn
EndEventsProductsFirst(productsToDisplay) ==
    (IF Len(productsToDisplay) > 0 THEN << "product_results" >> ELSE << >>) \o
    << "end_turn" >>

\* the end gone wrong: product_results whether or not products were kept
EndEventsUnconditional(productsToDisplay) == << "end_turn", "product_results" >>

\* after the loop: end_turn, then product_results if productsToDisplay.length > 0
EndEvents(productsToDisplay) ==
    << "end_turn" >> \o
    (IF Len(productsToDisplay) > 0 THEN << "product_results" >> ELSE << >>)

\* the loop's test of the stop_reason: the next streamConversation call (as far as
\* calls are explored), or the end of the session
LoopTest(s, stop) ==
    IF LoopContinues(stop)
    THEN /\ llmCalls[s] < cfg.cap
         /\ llmCalls' = [llmCalls EXCEPT ![s] = @ + 1]
         /\ offered' = [offered EXCEPT ![s] = client[s].tools]
         /\ pc' = [pc EXCEPT ![s] = "llm"]
         /\ UNCHANGED events
    ELSE /\ Publish(s, EndEvents(products[s]))
         /\ pc' = [pc EXCEPT ![s] = "done"]
         /\ UNCHANGED << llmCalls, offered >>

\* after getConversationHistory: the formatted history, and the loop's first test
HistoryLoaded(s) ==
    /\ pc[s] = "get_history"
    /\ \E rejects \in MayReject :
        /\ Fault(rejects)
        /\ IF rejects
           THEN /\ pc' = [pc EXCEPT ![s] = Rethrown]
                /\ UNCHANGED << loopVars, events >>
           ELSE /\ history' = [history EXCEPT ![s] = FormatMessages(dbMessages[conv[s]])]
                /\ LoopTest(s, "undefined")
                /\ UNCHANGED << products, finalMessage, current >>
    /\ UNCHANGED << cfg, clock, dbVars, reqVars, transportOpen, endpoint, discovery, client,
                    call, requests, pendingSaves >>

\* ------------------------------------------------ streamConversation callbacks

\* the tool names the provider may ask for: one it was offered, or one it made up
Requestable(s) == Names(offered[s]) \cup {UnknownTool}

\* the turns the provider may produce; text is whether text came before
Turns(s, text) ==
    IF text
    THEN {[stop |-> "end_turn", tools |-> << >>], [stop |-> "max_tokens", tools |-> << >>]}
    ELSE {[stop |-> "tool_use", tools |-> << n >>] : n \in Requestable(s)}

\* the push gone wrong: the turn takes the place of the latest one
PushOverLast(conversationHistory, turn) ==
    IF conversationHistory = << >> THEN << turn >>
    ELSE SubSeq(conversationHistory, 1, Len(conversationHistory) - 1) \o << turn >>

\* conversationHistory.push(turn)
Push(conversationHistory, turn) == Append(conversationHistory, turn)

\* onText for the text of the turn, then onContentBlock for its text block
LLMText(s) ==
    /\ pc[s] = "llm"
    /\ Publish(s, << "chunk", "content_block_complete" >>)
    /\ pc' = [pc EXCEPT ![s] = "llm_text"]
    /\ UNCHANGED << cfg, faults, clock, dbVars, reqVars, transportOpen, endpoint, discovery, client,
                    loopVars, call, requests, pendingSaves >>

\* onMessage: the turn into history, saveMessage not awaited, message_complete;
\* or the provider's call fails and handleChatSession rethrows
LLMMessage(s) ==
    /\ pc[s] \in {"llm", "llm_text"}
    /\ \E rejects \in MayReject :
        /\ Fault(rejects)
        /\ IF rejects
           THEN /\ pc' = [pc EXCEPT ![s] = Rethrown]
                /\ UNCHANGED << history, current, pendingSaves, events >>
           ELSE \E turn \in Turns(s, pc[s] = "llm_text") :
               LET message == [role |-> "assistant",
                               content |-> [t |-> "blocks", text |-> pc[s] = "llm_text",
                                            tools |-> turn.tools]]
               IN  /\ history' = [history EXCEPT ![s] = Push(@, message)]
                   /\ pendingSaves' = [pendingSaves EXCEPT ![s] =
                           Append(@, [role |-> message.role,
                                      content |-> JsonStringify(message.content),
                                      req |-> s])]
                   /\ Publish(s, << "message_complete" >>)
                   /\ current' = [current EXCEPT ![s] = turn]
                   /\ pc' = [pc EXCEPT ![s] = "llm_final"]
    /\ UNCHANGED << cfg, clock, dbVars, reqVars, transportOpen, endpoint, discovery, client,
                    products, finalMessage, llmCalls, offered, call, requests >>

\* the catch gone wrong: a rejected saveMessage raises into the loop
SaveSettlesRaising(s) ==
    /\ pendingSaves[s] # << >>
    /\ \E rejects \in MayReject :
        /\ Fault(rejects)
        /\ IF rejects
           THEN /\ pc' = [pc EXCEPT ![s] = Rethrown]
                /\ UNCHANGED dbMessages
           ELSE /\ dbMessages' = [dbMessages EXCEPT ![conv[s]] = Append(@, Head(pendingSaves[s]))]
                /\ UNCHANGED pc
    /\ pendingSaves' = [pendingSaves EXCEPT ![s] = Tail(@)]
    /\ UNCHANGED << cfg, clock, dbToken, reqVars, transportOpen, endpoint, discovery, client,
                    loopVars, call, events, requests >>

\* the promise of onMessage's saveMessage settles: the row is written, or the
\* rejection is logged by its catch
SaveSettles(s) ==
    /\ pendingSaves[s] # << >>
    /\ \E rejects \in MayReject :
        /\ Fault(rejects)
        /\ IF rejects
           THEN UNCHANGED dbMessages
           ELSE dbMessages' = [dbMessages EXCEPT ![conv[s]] = Append(@, Head(pendingSaves[s]))]
    /\ pendingSaves' = [pendingSaves EXCEPT ![s] = Tail(@)]
    /\ UNCHANGED << cfg, clock, dbToken, pc, reqVars, transportOpen, endpoint, discovery, client,
                    loopVars, call, events, requests >>


\* ------------------------------------------------------------ MCPClient.callTool

\* the scan gone wrong: storefrontTools first
OwnerStorefrontFirst(c, toolName) ==
    IF toolName \in Names(c.storefrontTools) THEN "storefront"
    ELSE IF toolName \in Names(c.customerTools) THEN "customer"
    ELSE "none"

\* callTool's scan of customerTools, then storefrontTools
Owner(c, toolName) ==
    IF toolName \in Names(c.customerTools) THEN "customer"
    ELSE IF toolName \in Names(c.storefrontTools) THEN "storefront"
    ELSE "none"

\* the inner catch gone wrong: no test of error.status
CustomerCallOutcomeNo401(r) == IF ~r.threw THEN "return" ELSE "internal_error"

\* callCustomerTool's inner try around _makeJsonRpcRequest: what it goes on to
CustomerCallOutcome(r) ==
    IF ~r.threw THEN "return"
    ELSE IF r.status = 401 THEN "generate_auth_url"
    ELSE "internal_error"

\* callStorefrontTool's try around _makeJsonRpcRequest: what it goes on to
StorefrontCallOutcome(r) == IF ~r.threw THEN "return" ELSE "throw"

\* response.result || response, as onToolUse reads it (toolUseResponse.error)
Returned(value) == IF value = "rpc_error" THEN "rpc_error" ELSE "success"

\* auth.server generateAuthUrl(conversationId, shopId)
GenerateAuthUrl(conversationId, shopId) ==
    [t |-> "url", conversation |-> conversationId, shop |-> shopId]

\* request.headers.get("X-Shopify-Shop-Id") || "unknown"
ShopId == "unknown"

\* onToolUse up to callTool's first await: the tool_use event, the owner, the POST
OnToolUse(s) ==
    /\ pc[s] = "llm_final"
    /\ current[s].tools # << >>
    /\ LET toolName == Head(current[s].tools)
           owner == Owner(client[s], toolName)
           cached == client[s].customerAccessToken
       IN  /\ Publish(s, << "tool_use" >>)
           /\ call' = [call EXCEPT ![s] =
                [NoCall EXCEPT !.name = toolName, !.owner = owner,
                    !.outcome = IF owner = "none" THEN "raised" ELSE "pending",
                    !.error = IF owner = "none" THEN "not_found" ELSE "none"]]
           /\ CASE owner = "customer" /\ cached # "" ->
                    /\ Post(s, "customer", "tools/call", TRUE, toolName)
                    /\ pc' = [pc EXCEPT ![s] = "tool_cu_call"]
                [] owner = "customer" /\ cached = "" ->
                    /\ pc' = [pc EXCEPT ![s] = "tool_token"]
                    /\ UNCHANGED requests
                [] owner = "storefront" ->
                    /\ Post(s, "storefront", "tools/call", FALSE, toolName)
                    /\ pc' = [pc EXCEPT ![s] = "tool_sf_call"]
                [] OTHER ->
                    /\ pc' = [pc EXCEPT ![s] = Rethrown]
                    /\ UNCHANGED requests
    /\ UNCHANGED << cfg, faults, clock, dbVars, reqVars, transportOpen, endpoint, discovery, client,
                    loopVars, pendingSaves >>

\* callCustomerTool after getCustomerToken: the token cached if found, the POST;
\* a failed lookup lands in the outer catch
ToolTokenLoaded(s) ==
    /\ pc[s] = "tool_token"
    /\ \E rejects \in MayReject :
        /\ Fault(rejects)
        /\ IF rejects
           THEN /\ call' = [call EXCEPT ![s].error = "token_lookup",
                                        ![s].outcome = "internal_error"]
                /\ pc' = [pc EXCEPT ![s] = "tool_handle"]
                /\ UNCHANGED << client, requests >>
           ELSE LET accessToken == dbToken[conv[s]]
                IN  /\ client' = [client EXCEPT ![s].customerAccessToken =
                           CachedToken(@, accessToken)]
                    /\ Post(s, "customer", "tools/call", accessToken # "", call[s].name)
                    /\ pc' = [pc EXCEPT ![s] = "tool_cu_call"]
                    /\ UNCHANGED call
    /\ UNCHANGED << cfg, clock, dbVars, reqVars, transportOpen, endpoint, discovery, loopVars,
                    events, pendingSaves >>

\* callCustomerTool after its fetch
CustomerCallResponse(s) ==
    /\ pc[s] = "tool_cu_call"
    /\ \E resp \in CallResponses("customer") :
        /\ Fault(FailedResponse(resp, "customer", "tools/call"))
        /\ LET r == MakeJsonRpcRequest(resp)
               next == CustomerCallOutcome(r)
           IN  /\ call' = [call EXCEPT
                       ![s].error = r.error,
                       ![s].status = r.status,
                       ![s].data = IF next = "return" THEN Str(r.value) ELSE Undefined,
                       ![s].outcome = CASE next = "return" -> Returned(r.value)
                                        [] next = "generate_auth_url" -> "pending"
                                        [] OTHER -> "internal_error"]
               /\ pc' = [pc EXCEPT ![s] =
                       IF next = "generate_auth_url" THEN "tool_auth" ELSE "tool_handle"]
    /\ UNCHANGED << cfg, clock, dbVars, reqVars, transportOpen, endpoint, discovery, client,
                    loopVars, events, requests, pendingSaves >>

\* callCustomerTool after generateAuthUrl: the auth_required result; a failed
\* generateAuthUrl lands in the outer catch
AuthUrlGenerated(s) ==
    /\ pc[s] = "tool_auth"
    /\ \E rejects \in MayReject :
        /\ Fault(rejects)
        /\ call' = [call EXCEPT
               ![s].authUrl = IF rejects THEN "failed" ELSE "returned",
               ![s].outcome = IF rejects THEN "internal_error" ELSE "auth_required",
               ![s].data = IF rejects THEN Undefined ELSE GenerateAuthUrl(conv[s], ShopId)]
    /\ pc' = [pc EXCEPT ![s] = "tool_handle"]
    /\ UNCHANGED << cfg, clock, dbVars, reqVars, transportOpen, endpoint, discovery, client,
                    loopVars, events, requests, pendingSaves >>

\* callStorefrontTool after its fetch: the result, or the error rethrown through
\* callTool, onToolUse and streamConversation
StorefrontCallResponse(s) ==
    /\ pc[s] = "tool_sf_call"
    /\ \E resp \in CallResponses("storefront") :
        /\ Fault(FailedResponse(resp, "storefront", "tools/call"))
        /\ LET r == MakeJsonRpcRequest(resp)
               next == StorefrontCallOutcome(r)
           IN  /\ call' = [call EXCEPT
                       ![s].error = r.error,
                       ![s].status = r.status,
                       ![s].data = IF next = "return" THEN Str(r.value) ELSE Undefined,
                       ![s].outcome = IF next = "return" THEN Returned(r.value) ELSE "raised"]
               /\ pc' = [pc EXCEPT ![s] = IF next = "return" THEN "tool_handle" ELSE Rethrown]
    /\ UNCHANGED << cfg, clock, dbVars, reqVars, transportOpen, endpoint, discovery, client,
                    loopVars, events, requests, pendingSaves >>

\* the handlers gone wrong: the turn appended names no tool and carries no result
ToolResultTurnEmpty(c) ==
    [role |-> "tool",
     content |-> [t |-> "tool_result", tool |-> "none", result |-> "none", data |-> Undefined]]

\* tool.server: the tool-result turn handleToolSuccess / handleToolError append
ToolResultTurn(c) ==
    [role |-> "tool",
     content |-> [t |-> "tool_result", tool |-> c.name, result |-> c.outcome,
                  data |-> c.data]]

\* tool.server handleToolSuccess: the products of a successful result, kept for
\* the product_results event
ProductsToDisplay(kept, c) ==
    IF c.outcome = "success" /\ c.data = Str("products") THEN Append(kept, c.name) ELSE kept

\* onToolUse after handleToolError / handleToolSuccess: the turn in history and
\* persisted, the products kept, then new_message
ToolHandled(s) ==
    /\ pc[s] = "tool_handle"
    /\ LET turn == ToolResultTurn(call[s])
       IN  /\ history' = [history EXCEPT ![s] = Push(@, turn)]
           /\ dbMessages' = [dbMessages EXCEPT ![conv[s]] =
                Append(@, [role |-> turn.role, content |-> JsonStringify(turn.content),
                           req |-> s])]
    /\ products' = [products EXCEPT ![s] = ProductsToDisplay(@, call[s])]
    /\ Publish(s, << "new_message" >>)
    /\ current' = [current EXCEPT ![s].tools = Tail(@)]
    /\ pc' = [pc EXCEPT ![s] = "llm_final"]
    /\ UNCHANGED << cfg, faults, clock, dbToken, reqVars, transportOpen, endpoint, discovery, client,
                    finalMessage, llmCalls, offered, call, requests, pendingSaves >>

\* ------------------------------------------------------ the loop and its end

\* streamConversation returns finalMessage: the loop's test, then the next call or
\* the end of the session
StreamReturns(s) ==
    /\ pc[s] = "llm_final"
    /\ current[s].tools = << >>
    /\ finalMessage' = [finalMessage EXCEPT ![s] = current[s].stop]
    /\ LoopTest(s, current[s].stop)
    /\ UNCHANGED << cfg, faults, clock, dbVars, reqVars, transportOpen, endpoint, discovery, client,
                    history, products, current, call, requests, pendingSaves >>

\* ------------------------------------------------------------ the environment

Terminal == {"done", "raised", "rejected400", "error500"}
Running(s) == pc[s] \notin Terminal \cup {"idle"}

\* the end user's connection closes
TransportCloses(s) ==
    /\ Running(s)
    /\ transportOpen[s]
    /\ FaultAllowed
    /\ Fault(TRUE)
    /\ transportOpen' = [transportOpen EXCEPT ![s] = FALSE]
    /\ UNCHANGED << cfg, clock, dbVars, pc, reqVars, endpoint, discovery, client, loopVars,
                    call, events, requests, pendingSaves >>

\* the customer completes the authorization: a token is persisted for c
StoreToken(c) ==
    /\ dbToken[c] = ""
    /\ \E s \in Sessions : pc[s] \in {"cu_token", "tool_token"} /\ conv[s] = c
    /\ dbToken' = [dbToken EXCEPT ![c] = "token"]
    /\ UNCHANGED << cfg, faults, clock, dbMessages, pc, reqVars, transportOpen, endpoint, discovery,
                    client, loopVars, call, events, requests, pendingSaves >>

\* time passes before a request is handled
Tick ==
    /\ clock < MaxClock
    /\ \E s \in cfg.arrive : pc[s] = "idle"
    /\ clock' = clock + 1
    /\ UNCHANGED << cfg, faults, dbVars, pc, reqVars, transportOpen, endpoint, discovery, client,
                    loopVars, call, events, requests, pendingSaves >>

SessionStep(s) ==
    \/ HandleChatRequest(s)
    \/ ResolveEndpoint(s)
    \/ StorefrontListResponse(s)
    \/ CustomerTokenLoaded(s)
    \/ CustomerListResponse(s)
    \/ UserMessageSaved(s)
    \/ HistoryLoaded(s)
    \/ LLMText(s)
    \/ LLMMessage(s)
    \/ OnToolUse(s)
    \/ ToolTokenLoaded(s)
    \/ CustomerCallResponse(s)
    \/ AuthUrlGenerated(s)
    \/ StorefrontCallResponse(s)
    \/ ToolHandled(s)
    \/ StreamReturns(s)

Next ==
    \/ \E s \in Sessions : SessionStep(s)
    \/ \E s \in Sessions : SaveSettles(s)
    \/ \E s \in Sessions : TransportCloses(s)
    \/ \E c \in ConvIds : StoreToken(c)

Spec == Init /\ [][Next]_vars

\* two requests handled concurrently, the collaborators answering well, each
\* session followed through its first streamConversation call
InitPair ==
    /\ InitCommon
    /\ cfg = [arrive |-> Sessions, messages |-> {PlainText}, enableCustomerMcp |-> TRUE,
              maxFaults |-> 0, cap |-> 1]

NextPair ==
    \/ \E s \in Sessions : SessionStep(s)
    \/ \E s \in Sessions : SaveSettles(s)
    \/ Tick

SpecPair == InitPair /\ [][NextPair]_vars

\* a session's steps are taken: the event loop runs a continuation once the promise
\* it awaits has settled, and the collaborators answer
FairSpec == Spec /\ \A s \in Sessions : WF_vars(SessionStep(s))

\* ==================================================================== claims

Range(seq) == {seq[i] : i \in 1..Len(seq)}
Count(seq, e) == Cardinality({i \in 1..Len(seq) : seq[i] = e})

RECURSIVE Without(_, _)
\* seq without the events of the types in dropped
Without(seq, dropped) ==
    IF seq = << >> THEN << >>
    ELSE IF Head(seq) \in dropped THEN Without(Tail(seq), dropped)
    ELSE << Head(seq) >> \o Without(Tail(seq), dropped)

\* callTool is over for the latest tool-use request
CallOver(s) == call[s].outcome \notin {"none", "pending"}

\* ---- C1
\* C1: every failure of the owning backend's tools/call (network, non-2xx, body that
\* does not parse) other than the customer backend's 401 ends callTool with the
\* result {error: {type: internal_error}}, for the customer and for the storefront
\* backend alike; callTool never raises.
C1_FailureBecomesInternalError ==
    \A s \in Sessions :
        ( /\ call[s].error \in {"fetch", "http", "syntax"}
          /\ ~(call[s].owner = "customer" /\ call[s].status = 401) )
        => call[s].outcome = "internal_error"

\* ---- C2
\* C2: whenever the customer backend answers tools/call with HTTP 401, callTool
\* returns auth_required with the URL of generateAuthUrl(conversationId, shopId),
\* and nothing else.
C2_Always_AuthRequired ==
    \A s \in Sessions :
        (call[s].owner = "customer" /\ call[s].status = 401 /\ CallOver(s))
        => /\ call[s].outcome = "auth_required"
           /\ call[s].data = GenerateAuthUrl(conv[s], ShopId)

\* C2: whenever the customer backend answers tools/call with HTTP 401, callTool
\* does not raise: it returns auth_required with the URL of generateAuthUrl when
\* generateAuthUrl returns, and internal_error when generateAuthUrl itself fails.
C2_AuthRequired_Unless_UrlFails ==
    \A s \in Sessions :
        (call[s].owner = "customer" /\ call[s].status = 401 /\ CallOver(s))
        => \/ /\ call[s].authUrl = "returned"
              /\ call[s].outcome = "auth_required"
              /\ call[s].data = GenerateAuthUrl(conv[s], ShopId)
           \/ /\ call[s].authUrl = "failed"
              /\ call[s].outcome = "internal_error"

C2_Witness ==
    \E s \in Sessions :
        /\ call[s].owner = "customer" /\ call[s].status = 401
        /\ call[s].outcome = "auth_required"
        /\ pc[s] = "tool_handle"

\* ---- C3
\* C3: callTool with a name in neither catalog returns a not_found result to its
\* caller and sends no request to either backend.
C3_UnknownToolReturnsNotFound ==
    [][\A s \in Sessions :
        (call'[s] # call[s] /\ call'[s].owner = "none")
        => /\ call'[s].outcome = "not_found"
           /\ requests'[s] = requests[s]]_vars

\* ---- C4
\* C4: a tools/call for a name in both catalogs goes to the customer endpoint and
\* never to the storefront endpoint; a name only in the storefront catalog goes to
\* the storefront endpoint.
C4_CustomerFirst ==
    \A s \in Sessions : \A i \in 1..Len(requests[s]) :
        LET r == requests[s][i]
        IN  r.method = "tools/call" =>
                /\ r.tool \in Names(client[s].customerTools) => r.to = "customer"
                /\ ( /\ r.tool \notin Names(client[s].customerTools)
                     /\ r.tool \in Names(client[s].storefrontTools) )
                   => r.to = "storefront"

C4_Witness ==
    \E s \in Sessions : \E i \in 1..Len(requests[s]) :
        /\ requests[s][i].method = "tools/call"
        /\ requests[s][i].tool \in Names(client[s].customerTools)
        /\ requests[s][i].tool \in Names(client[s].storefrontTools)
        /\ requests[s][i].to = "customer"

\* ---- C5
\* C5: when the tools/list discovery of one backend fails, the session goes on and
\* the catalog of the first LLM call still holds the tools of the other enabled
\* backend: the customer's when the storefront's discovery failed, and vice versa.
C5_OtherBackendKept ==
    \A s \in Sessions :
        llmCalls[s] >= 1 =>
            /\ ( /\ discovery[s].storefront = "failed"
                 /\ CustomerEnabled(s)
                 /\ discovery[s].customer # "failed" )
               => Names(CustomerAdvertised) \subseteq Names(offered[s])
            /\ ( /\ discovery[s].customer = "failed"
                 /\ discovery[s].storefront = "listed" )
               => Names(StorefrontAdvertised) \subseteq Names(offered[s])

\* ---- C6
\* the session asked for exactly one tool, a storefront-only one that returned
\* products, and then got a text-only turn with stop_reason end_turn
OneProductSearch(s) ==
    /\ pc[s] = "done"
    /\ llmCalls[s] = 2
    /\ Count(events[s], "tool_use") = 1
    /\ call[s].owner = "storefront"
    /\ call[s].name \notin Names(client[s].customerTools)
    /\ call[s].outcome = "success" /\ call[s].data = Str("products")
    /\ LET n == Len(history[s])
       IN  /\ n >= 3
           /\ history[s][n - 2].content.tools = << call[s].name >>
           /\ history[s][n - 1] = ToolResultTurn(call[s])
           /\ history[s][n].content.text /\ history[s][n].content.tools = << >>
    /\ finalMessage[s] = "end_turn"

Published(s) == Without(events[s], {"chunk", "content_block_complete"})

C7_NothingAfterClose ==
    [][\A s \in Sessions :
        ~transportOpen[s] =>
            /\ events'[s] = events[s]
            /\ llmCalls'[s] = llmCalls[s]
            /\ requests'[s] = requests[s]]_vars

\* ---- C8
\* streamConversation has been called and has not returned
InFlight(s) ==
    pc[s] \in {"llm", "llm_text", "llm_final", "tool_token", "tool_cu_call",
               "tool_sf_call", "tool_auth", "tool_handle"}

\* C8: at every moment at most one streamConversation call is in flight per
\* conversation id, also for two requests with the same conversation_id.
C8_OneCallPerConversation ==
    \A s, t \in Sessions :
        (s # t /\ InFlight(s) /\ InFlight(t)) => conv[s] # conv[t]

\* ---- C9
\* C9: a step starts at most one streamConversation call, and none while one is in
\* flight; when a call returns, another is started if and only if the returned
\* stop_reason is not end_turn; end_turn is published only when the call just
\* returned end_turn; and once end_turn is published no call is started.
C9_LoopDiscipline ==
    [][\A s \in Sessions :
        /\ llmCalls'[s] # llmCalls[s] =>
                /\ llmCalls'[s] = llmCalls[s] + 1
                /\ ~InFlight(s) \/ (pc[s] = "llm_final" /\ current[s].tools = << >>)
                /\ pc'[s] = "llm"
        /\ (InFlight(s) /\ ~InFlight(s)' /\ pc'[s] # "raised") =>
                (current[s].stop = "end_turn" <=> llmCalls'[s] = llmCalls[s])
        /\ (InFlight(s) /\ InFlight(s)' /\ pc[s] = "llm_final" /\ pc'[s] = "llm") =>
                current[s].stop # "end_turn"
        /\ Count(events'[s], "end_turn") # Count(events[s], "end_turn") =>
                /\ finalMessage'[s] = "end_turn" /\ current[s].stop = "end_turn"
                /\ pc[s] = "llm_final"
        /\ "end_turn" \in Range(events[s]) => llmCalls'[s] = llmCalls[s]]_vars

C9_Witness ==
    \E s \in Sessions :
        /\ pc[s] = "done" /\ llmCalls[s] = 2
        /\ "end_turn" \in Range(events[s])

\* ---- C10
FirstCallReturnsEndTurn(s) ==
    llmCalls[s] = 1 /\ pc[s] = "llm_final" /\ current[s].stop = "end_turn"

EndedAfterOneCall(s) ==
    /\ pc[s] = "done"
    /\ llmCalls[s] = 1
    /\ Count(events[s], "end_turn") = 1
    /\ Count(events[s], "tool_use") = 0

\* C10: when the provider returns stop_reason end_turn on its first call, the
\* session ends after exactly one LLM call, with end_turn published exactly once
\* and no tool_use event.
C10_EndsAfterOneCall ==
    \A s \in Sessions : FirstCallReturnsEndTurn(s) ~> EndedAfterOneCall(s)

C10_Witness == \E s \in Sessions : EndedAfterOneCall(s)

\* ---- C11
\* the events published after the first end_turn
AfterEndTurn(s) ==
    LET first == CHOOSE i \in 1..Len(events[s]) :
                    /\ events[s][i] = "end_turn"
                    /\ \A j \in 1..(i - 1) : events[s][j] # "end_turn"
    IN  SubSeq(events[s], first + 1, Len(events[s]))

\* a tool execution of the session returned product data
AccumulatedProducts(s) ==
    \E i \in 1..Len(history[s]) :
        /\ history[s][i].role = "tool"
        /\ history[s][i].content.result = "success"
        /\ history[s][i].content.data = Str("products")

\* C11: in every session that reaches the terminal state, end_turn is published
\* exactly once, product_results is published if and only if a tool execution of
\* the session accumulated product data, product_results comes after end_turn, and
\* nothing else is published after end_turn.
C11_EndTurnThenProducts ==
    \A s \in Sessions :
        pc[s] = "done" =>
            /\ Count(events[s], "end_turn") = 1
            /\ Count(events[s], "product_results") <= 1
            /\ "product_results" \in Range(events[s]) <=> AccumulatedProducts(s)
            /\ AfterEndTurn(s) =
                    IF AccumulatedProducts(s) THEN << "product_results" >> ELSE << >>

C11_Witness ==
    \E s \in Sessions :
        /\ pc[s] = "done"
        /\ AccumulatedProducts(s)
        /\ AfterEndTurn(s) = << "product_results" >>

\* ---- C12
ToolErrors == {"auth_required", "internal_error"}

\* callTool has returned an error result that onToolUse is about to handle
ErrorReturned(s) == pc[s] = "tool_handle" /\ call[s].outcome \in ToolErrors

\* the turn that asked for the tool is over and its tool ended with an error result
ErrorHandled(s) ==
    /\ pc[s] = "llm_final"
    /\ current[s].stop = "tool_use" /\ current[s].tools = << >>
    /\ call[s].outcome \in ToolErrors

\* C12: when callTool returns an auth_required or internal_error result the session
\* is not aborted: the error is appended to history as a tool-result turn, the loop
\* makes a further LLM call whose messages include that turn (as far as calls are
\* explored), and the session can still reach end_turn.
C12_ErrorResultContinues ==
    /\ [][\A s \in Sessions :
            /\ (ErrorReturned(s) /\ pc'[s] # pc[s]) =>
                    /\ pc'[s] = "llm_final"
                    /\ history'[s] = Append(history[s], ToolResultTurn(call[s]))
            /\ (ErrorHandled(s) /\ pc'[s] # pc[s]) =>
                    /\ pc'[s] = "llm"
                    /\ llmCalls'[s] = llmCalls[s] + 1
                    /\ ToolResultTurn(call[s]) \in Range(history'[s])]_vars
    /\ \A s \in Sessions :
            (ErrorReturned(s) /\ llmCalls[s] < cfg.cap)
            ~> (pc[s] = "llm" /\ ToolResultTurn(call[s]) \in Range(history[s]))

C12_Witness ==
    \E s \in Sessions :
        /\ pc[s] = "done"
        /\ "end_turn" \in Range(events[s])
        /\ call[s].outcome \in ToolErrors
        /\ ToolResultTurn(call[s]) \in Range(history[s])

\* ---- C13
\* this.customerAccessToken of the session's MCPClient
Cached(s) == client[s].customerAccessToken

\* the request the step has just sent, if it sent one
Sent(s) == requests'[s][Len(requests'[s])]

\* C13: within one MCPClient a token once found is cached and never cleared; every
\* later request to the customer backend carries the Authorization header and no
\* later callCustomerTool looks the token up again; while no token is cached each
\* callCustomerTool looks it up, and sends the request without Authorization if
\* there is still none.
C13_TokenMemoized ==
    [][\A s \in Sessions :
        /\ Cached(s) # "" =>
                /\ client'[s].customerAccessToken = Cached(s)
                /\ pc'[s] = "tool_token" => pc[s] = "tool_token"
        /\ (Len(requests'[s]) > Len(requests[s]) /\ Sent(s).to = "customer") =>
                (Sent(s).auth <=> client'[s].customerAccessToken # "")
        /\ (pc[s] = "llm_final" /\ pc'[s] \in {"tool_token", "tool_cu_call"}) =>
                (Cached(s) = "" <=> pc'[s] = "tool_token")
        /\ (pc[s] = "tool_token" /\ pc'[s] = "tool_cu_call") =>
                /\ Sent(s).auth <=> dbToken[conv[s]] # ""
                /\ client'[s].customerAccessToken = dbToken[conv[s]]]_vars

C13_Witness ==
    \E s \in Sessions :
        /\ Cached(s) # ""
        /\ \E i, j \in 1..Len(requests[s]) :
            /\ i < j
            /\ requests[s][i].to = "customer" /\ ~requests[s][i].auth
            /\ requests[s][j].to = "customer" /\ requests[s][j].auth
            /\ requests[s][j].method = "tools/call"

\* ---- C14
\* ENABLE_CUSTOMER_MCP is not "true", or no customer endpoint was resolved
CustomerDisabled(s) == ~cfg.enableCustomerMcp \/ endpoint[s] = "null"

\* C14: when the customer backend is disabled no tools/list and no tools/call request
\* is ever sent to the customer endpoint, the customer catalog stays empty, and every
\* dispatched tool name resolves to the storefront backend or to no backend.
C14_DisabledCustomerUntouched ==
    \A s \in Sessions :
        CustomerDisabled(s) =>
            /\ \A i \in 1..Len(requests[s]) : requests[s][i].to # "customer"
            /\ client[s].customerTools = << >>
            /\ Names(client[s].tools) \subseteq Names(StorefrontAdvertised)
            /\ call[s].owner \in {"none", "storefront"}
            /\ pc[s] \notin {"cu_token", "cu_list", "tool_token", "tool_cu_call", "tool_auth"}

C14_Witness ==
    \E s \in Sessions :
        /\ CustomerDisabled(s)
        /\ call[s].name \in Names(CustomerAdvertised)
        /\ call[s].owner = "storefront"
        /\ \E i \in 1..Len(requests[s]) :
            requests[s][i].method = "tools/call" /\ requests[s][i].tool = call[s].name

\* ---- C15
\* what the loop sees of a session
LoopView(s) ==
    << pc[s], history[s], events[s], llmCalls[s], finalMessage[s], current[s], products[s] >>

\* C15: onMessage puts the completed message in history, issues saveMessage without
\* awaiting it and publishes message_complete; when the write settles, with success
\* or with failure, the message stays in history and the loop stands where it stood:
\* a failed write never raises into the loop.
C15_SaveNotAwaited ==
    [][\A s \in Sessions :
        /\ Count(events'[s], "message_complete") > Count(events[s], "message_complete") =>
                /\ Len(history'[s]) = Len(history[s]) + 1
                /\ SubSeq(history'[s], 1, Len(history[s])) = history[s]
                /\ history'[s][Len(history'[s])].role = "assistant"
                /\ Len(pendingSaves'[s]) = Len(pendingSaves[s]) + 1
                /\ dbMessages' = dbMessages
                /\ pc'[s] = "llm_final"
        /\ Len(pendingSaves'[s]) < Len(pendingSaves[s]) =>
                /\ LoopView(s)' = LoopView(s)
                /\ \/ dbMessages' = dbMessages
                   \/ dbMessages'[conv[s]] = Append(dbMessages[conv[s]], Head(pendingSaves[s]))]_vars

\* the rows of role in seq
OfRole(seq, role) == Cardinality({i \in 1..Len(seq) : seq[i].role = role})

\* the write of the first message failed and the loop went on to a second call; the
\* session ended while the write of the second message was still pending
C15_Witness ==
    \E s \in Sessions :
        /\ pc[s] = "done" /\ llmCalls[s] = 2
        /\ Len(pendingSaves[s]) = 1
        /\ OfRole(history[s], "assistant") = OfRole(dbMessages[conv[s]], "assistant") + 2

\* ---- C16
\* C16: when the LLM call or one of its callbacks raises inside the loop,
\* handleChatSession raises to its caller and publishes neither end_turn nor
\* product_results, then or later.
C16_FailureRaisesWithoutEnd ==
    /\ [](\A s \in Sessions :
            /\ call[s].outcome = "raised" => pc[s] = "raised"
            /\ pc[s] = "raised" =>
                    /\ "end_turn" \notin Range(events[s])
                    /\ "product_results" \notin Range(events[s]))
    /\ [][\A s \in Sessions :
            /\ (pc[s] \in {"llm", "llm_text"} /\ pc'[s] \notin {"llm", "llm_text", "llm_final"}) =>
                    pc'[s] = "raised" /\ events'[s] = events[s]
            /\ pc[s] = "raised" => pc'[s] = "raised" /\ events'[s] = events[s]]_vars

\* the provider fails on the second call, after a tool returned products
C16_Witness ==
    \E s \in Sessions :
        /\ pc[s] = "raised"
        /\ llmCalls[s] = 2
        /\ products[s] # << >>
        /\ call[s].outcome = "success"

\* ---- C17
\* answers around the edges of the 2xx range, with a body that parses or does not
EdgeResponses ==
    [net : {"ok"}, status : {199, 200, 204, 299, 300, 401, 404, 500},
     body : {"result", "rpc_error", "html"}]

\* the error of the latest tools/call request of the session, as callTool met it
HttpErrorMet(s) == call[s].error = "http"
ParseErrorMet(s) == call[s].error = "syntax"

\* C17: a non-2xx answer makes _makeJsonRpcRequest fail with an error that carries
\* the HTTP status; a 2xx answer whose body does not parse makes it fail with
\* another error, one without HTTP status; a 2xx answer whose body parses never
\* fails. The caller can always tell the two failures apart.
C17_HttpAndParseErrorsDiffer ==
    /\ \A resp \in HttpResponses \cup EdgeResponses :
        LET r == MakeJsonRpcRequest(resp)
        IN  /\ ~ResOk(resp.status) =>
                    r.threw /\ r.error = "http" /\ r.status = resp.status
            /\ (ResOk(resp.status) /\ resp.body = "html") =>
                    r.threw /\ r.error # "http" /\ r.status = NoStatus
            /\ (ResOk(resp.status) /\ resp.body # "html") =>
                    ~r.threw /\ r.value = resp.body
            /\ r.status # NoStatus <=> ~ResOk(resp.status)
    /\ \A s \in Sessions :
        /\ HttpErrorMet(s) => call[s].status # NoStatus /\ ~ResOk(call[s].status)
        /\ ParseErrorMet(s) => call[s].status = NoStatus

\* the customer backend answered a call with 200 and a body that is no JSON: callTool
\* met an error without status and returned internal_error, not auth_required
C17_Witness ==
    \E s \in Sessions :
        /\ ParseErrorMet(s)
        /\ call[s].status = NoStatus
        /\ call[s].owner = "customer"
        /\ call[s].outcome = "internal_error"

\* ---- C18
\* callTool has been invoked for the latest tool-use request and onToolUse has not
\* yet published new_message
Dispatching(s) ==
    pc[s] \in {"tool_token", "tool_cu_call", "tool_sf_call", "tool_auth", "tool_handle"}

ToolCalls(s) ==
    Cardinality({i \in 1..Len(requests[s]) : requests[s][i].method = "tools/call"})

\* C18: for every tool-use request the tool_use event is published before the
\* dispatcher is invoked, new_message after the dispatcher has returned, and the
\* tool result is in the in-memory history before the next streamConversation call
\* starts.
C18_ToolUseOrder ==
    \A s \in Sessions :
        LET toolUse == Count(events[s], "tool_use")
            newMessage == Count(events[s], "new_message")
            last == history[s][Len(history[s])]
        IN  /\ ToolCalls(s) <= toolUse
            /\ newMessage <= toolUse /\ toolUse <= newMessage + 1
            /\ Dispatching(s) => toolUse = newMessage + 1
            /\ call[s].outcome = "pending" => toolUse = newMessage + 1
            /\ newMessage = OfRole(history[s], "tool")
            /\ (pc[s] = "llm" /\ finalMessage[s] = "tool_use") =>
                    /\ toolUse = newMessage
                    /\ last.role = "tool"
                    /\ last.content.tool = call[s].name
                    /\ last.content.result = call[s].outcome
                    /\ CallOver(s)

C18_Witness ==
    \E s \in Sessions :
        /\ pc[s] = "llm" /\ finalMessage[s] = "tool_use"
        /\ llmCalls[s] = 2
        /\ Count(events[s], "tool_use") = 1
        /\ history[s][Len(history[s])].role = "tool"

\* ---- C19
\* the rows of the conversation that this request wrote as its user message
OwnUserRows(s) ==
    {i \in 1..Len(dbMessages[conv[s]]) :
        dbMessages[conv[s]][i].role = "user" /\ dbMessages[conv[s]][i].req = s}

\* C19: the messages of the first LLM call of a session are the persisted history
\* read after the user message was saved: the last turn is the user message of this
\* request, which appears exactly once, for every interleaving with another session
\* on the same conversation id.
C19_FirstCallEndsWithOwnMessage ==
    [][\A s \in Sessions :
        (pc[s] = "get_history" /\ pc'[s] = "llm") =>
            LET rows == dbMessages[conv[s]]
            IN  /\ history'[s] = FormatMessages(rows)
                /\ Cardinality(OwnUserRows(s)) = 1
                /\ OwnUserRows(s) = {Len(rows)}
                /\ history'[s][Len(rows)] =
                        [role |-> "user", content |-> ParseContent(userMessage[s])]]_vars

\* ---- C20
\* earlier is a prefix of later
IsPrefix(earlier, later) ==
    /\ Len(earlier) <= Len(later)
    /\ SubSeq(later, 1, Len(earlier)) = earlier

\* C20: the in-memory history only grows by appending: every step leaves the
\* history it found as a prefix of the history it leaves, a completed message and a
\* tool result adding exactly one turn at the end.
C20_HistoryAppendOnly ==
    [][\A s \in Sessions :
        /\ IsPrefix(history[s], history'[s])
        /\ (history[s] # << >> /\ history'[s] # history[s]) =>
                /\ Len(history'[s]) = Len(history[s]) + 1
                /\ history'[s][Len(history'[s])].role \in {"assistant", "tool"}]_vars

\* a session that ended after a message asking for a tool, its result and a closing
\* message: three turns after the history it loaded
C20_Witness ==
    \E s \in Sessions :
        /\ pc[s] = "done"
        /\ Len(history[s]) = Len(PriorRows) + 4
        /\ IsPrefix(FormatMessages(PriorRows), history[s])
        /\ history[s][Len(history[s]) - 1].role = "tool"

\* ---- C21
\* the request came without conversation_id: its id is the server's Date.now()
ServerGenerated(s) == conv[s] # NoConv /\ conv[s] \notin ClientIds

\* C21: two requests that arrive without conversation_id are given distinct
\* server-generated conversation ids, for every interleaving of their arrival, so
\* that their histories and persisted tokens are never shared.
C21_DistinctGeneratedIds ==
    \A s, t \in Sessions :
        (s # t /\ ServerGenerated(s) /\ ServerGenerated(t)) => conv[s] # conv[t]

====
